---- MODULE Spec2Model ----
(***************************************************************************)
(* Houston (libhouston.py): the package version / release comparator of    *)
(* class PKG, and the session of class Spacewalk.  Strings are sequences   *)
(* of code points, a Python value is a tagged record, and a call ends in a *)
(* returned value or a raised exception.                                   *)
(***************************************************************************)
EXTENDS Integers, Sequences, FiniteSets, TLC

VARIABLES self, other, op, result, pc, _key, _api_calllist, wire, args, server

vars == <<self, other, op, result, pc, _key, _api_calllist, wire, args, server>>

(***************************************************************************)
(* Bounds of the explored inputs.                                          *)
(***************************************************************************)
\* Longest label of a compared pair of labels.
MaxLen == 3

\* Longest label of a compared triple of labels.
MaxTransLen == 2

\* Longest version and longest release of a compared pair of identities.
MaxVerLen == 1

MaxRelLen == 1

\* Longest version the six operators are tried on.
MaxOpLen == 1

\* Longest label whose positional loop is followed step by step.
MaxLoopLen == 2

\* Most calls of api_call by the program that holds the Spacewalk object.
MaxCalls == 2

(***************************************************************************)
(* Code points.                                                            *)
(***************************************************************************)
Digits == 48 .. 57

Letters == (65 .. 90) \cup (97 .. 122)

AtSign == 64

Alphabet == {48, 49, 97, 98, 46}

\* Every string over Alphabet of length at most n.
RECURSIVE StringsUpTo(_)
StringsUpTo(n) ==
    IF n = 0 THEN {<< >>}
    ELSE LET shorter == StringsUpTo(n - 1)
         IN  shorter \cup {Append(s, c) : s \in shorter, c \in Alphabet}

(***************************************************************************)
(* Python values and call outcomes.                                        *)
(***************************************************************************)
Str(s) == [t |-> "str", s |-> s]

\* Values that are not strings: an int and None.
Number(n) == [t |-> "int", n |-> n]

None == [t |-> "NoneType"]

\* A Python list.
List(items) == [t |-> "list", items |-> items]

\* bool(x) of None or of a list.
Truthy(x) == x.t = "list" /\ x.items # << >>

Dict(name, version, release) ==
    [t |-> "dict", name |-> name, version |-> version, release |-> release]

Return(v) == [kind |-> "return", value |-> v]

Raise(e) == [kind |-> "raise", exc |-> e]

Returned(r) == r.kind = "return"

__NEWER__ == 1

__OLDER__ == -1

(***************************************************************************)
(* _convert_label_to_list                                                  *)
(***************************************************************************)
\* The class of a character as the two patterns of the substitution see it.
RunClass(c) == IF c \in Digits THEN "digit"
               ELSE IF c \in Letters THEN "letter" ELSE "other"

\* re.sub(r'([0-9]+|[A-Za-z]+)(?=)', r'\1@', label): an '@' is put after
\* every maximal run of digits and after every maximal run of letters.
RECURSIVE MarkRuns(_, _)
MarkRuns(label, i) ==
    IF i > Len(label) THEN << >>
    ELSE LET c == label[i]
             endsRun == /\ RunClass(c) # "other"
                        /\ \/ i = Len(label)
                           \/ RunClass(label[i + 1]) # RunClass(c)
         IN  (IF endsRun THEN <<c, AtSign>> ELSE <<c>>) \o MarkRuns(label, i + 1)

IsSeparator(c) == c \notin Digits /\ c \notin Letters

\* re.split(r'[^A-Za-z0-9]+', label): the pieces between the maximal runs of
\* separator characters, empty pieces at either end included.  cur is the
\* piece being read, inSep says that the previous character was a separator.
RECURSIVE SplitOnSeparators(_, _, _, _)
SplitOnSeparators(label, i, cur, inSep) ==
    IF i > Len(label) THEN <<cur>>
    ELSE IF IsSeparator(label[i])
         THEN IF inSep THEN SplitOnSeparators(label, i + 1, cur, TRUE)
              ELSE <<cur>> \o SplitOnSeparators(label, i + 1, << >>, TRUE)
         ELSE SplitOnSeparators(label, i + 1, Append(cur, label[i]), FALSE)

\* The list without the substitution that ends every run with an '@'.
_convert_label_to_list_Unmarked(label) ==
    SplitOnSeparators(label, 1, << >>, FALSE)

IsNotEmpty(piece) == piece # << >>

\* The list with the empty pieces of the split dropped.
_convert_label_to_list_NoEmpty(label) ==
    SelectSeq(SplitOnSeparators(MarkRuns(label, 1), 1, << >>, FALSE), IsNotEmpty)

_convert_label_to_list(label) ==
    SplitOnSeparators(MarkRuns(label, 1), 1, << >>, FALSE)

\* The call on a Python value: re.sub raises TypeError on anything but a str.
ConvertCall(x) ==
    IF x.t = "str" THEN Return(_convert_label_to_list(x.s)) ELSE Raise("TypeError")

(***************************************************************************)
(* PKG._label_cmp__                                                        *)
(***************************************************************************)
\* str.isdigit(): a non-empty string of digits.
isdigit(s) == s # << >> /\ \A k \in 1 .. Len(s) : s[k] \in Digits

\* int(s) of a string of decimal digits.
RECURSIVE int(_)
int(s) ==
    IF s = << >> THEN 0
    ELSE 10 * int(SubSeq(s, 1, Len(s) - 1)) + (s[Len(s)] - 48)

\* s < o on strings: code point by code point, a proper prefix is smaller.
RECURSIVE StrLess(_, _)
StrLess(s, o) ==
    IF o = << >> THEN FALSE
    ELSE IF s = << >> THEN TRUE
    ELSE IF Head(s) # Head(o) THEN Head(s) < Head(o)
    ELSE StrLess(Tail(s), Tail(o))

\* The segment comparison with "s < o" on the strings of two numbers.
_label_cmp__StringOlder(s, o) ==
    IF isdigit(s) /\ ~isdigit(o) THEN __NEWER__
    ELSE IF ~isdigit(s) /\ isdigit(o) THEN __OLDER__
    ELSE IF isdigit(s) /\ isdigit(o)
         THEN IF int(s) > int(o) THEN __NEWER__
              ELSE IF StrLess(s, o) THEN __OLDER__
              ELSE 0
    ELSE IF StrLess(o, s) THEN __NEWER__
    ELSE IF StrLess(s, o) THEN __OLDER__
    ELSE 0

\* The segment comparison with two numbers compared as strings.
_label_cmp__NoInt(s, o) ==
    IF isdigit(s) /\ ~isdigit(o) THEN __NEWER__
    ELSE IF ~isdigit(s) /\ isdigit(o) THEN __OLDER__
    ELSE IF StrLess(o, s) THEN __NEWER__
    ELSE IF StrLess(s, o) THEN __OLDER__
    ELSE 0

\* The segment comparison without the two tests of a number against a word.
_label_cmp__NoKinds(s, o) ==
    IF isdigit(s) /\ isdigit(o)
    THEN IF int(s) > int(o) THEN __NEWER__
         ELSE IF int(s) < int(o) THEN __OLDER__
         ELSE 0
    ELSE IF StrLess(o, s) THEN __NEWER__
    ELSE IF StrLess(s, o) THEN __OLDER__
    ELSE 0

\* The segment comparison with ">=" where the code has ">" on two strings.
_label_cmp__NotStrict(s, o) ==
    IF isdigit(s) /\ ~isdigit(o) THEN __NEWER__
    ELSE IF ~isdigit(s) /\ isdigit(o) THEN __OLDER__
    ELSE IF isdigit(s) /\ isdigit(o)
         THEN IF int(s) > int(o) THEN __NEWER__
              ELSE IF int(s) < int(o) THEN __OLDER__
              ELSE 0
    ELSE IF ~StrLess(s, o) THEN __NEWER__
    ELSE __OLDER__

\* The segment comparison answering for the other side.
_label_cmp__OtherSide(s, o) ==
    IF isdigit(s) /\ ~isdigit(o) THEN __OLDER__
    ELSE IF ~isdigit(s) /\ isdigit(o) THEN __NEWER__
    ELSE IF isdigit(s) /\ isdigit(o)
         THEN IF int(s) > int(o) THEN __OLDER__
              ELSE IF int(s) < int(o) THEN __NEWER__
              ELSE 0
    ELSE IF StrLess(o, s) THEN __OLDER__
    ELSE IF StrLess(s, o) THEN __NEWER__
    ELSE 0

_label_cmp__(s, o) ==
    IF isdigit(s) /\ ~isdigit(o) THEN __NEWER__
    ELSE IF ~isdigit(s) /\ isdigit(o) THEN __OLDER__
    ELSE IF isdigit(s) /\ isdigit(o)
         THEN IF int(s) > int(o) THEN __NEWER__
              ELSE IF int(s) < int(o) THEN __OLDER__
              ELSE 0
    ELSE IF StrLess(o, s) THEN __NEWER__
    ELSE IF StrLess(s, o) THEN __OLDER__
    ELSE 0

(***************************************************************************)
(* PKG.__cmp__                                                             *)
(***************************************************************************)
\* x[key] of a Python value: a mapping gives the value, anything else
\* (a str indexed by a str, a number) raises TypeError.
Subscriptable(x) == x.t = "dict"

\* The handler with a bare string standing for an identity of release ''.
OtherList_EmptyRelease(x, label) ==
    IF Subscriptable(x) /\ x[label].t = "str"
    THEN [kind |-> "list", list |-> _convert_label_to_list(x[label].s)]
    ELSE IF x.t = "str"
         THEN [kind |-> "list",
               list |-> _convert_label_to_list(IF label = "version" THEN x.s ELSE << >>)]
         ELSE IF label = "version" THEN Raise("TypeError") ELSE Return(0)

\* The handler converting the bare operand for either label.
OtherList_BareBothLabels(x, label) ==
    IF Subscriptable(x) /\ x[label].t = "str"
    THEN [kind |-> "list", list |-> _convert_label_to_list(x[label].s)]
    ELSE IF x.t = "str"
         THEN [kind |-> "list", list |-> _convert_label_to_list(x.s)]
         ELSE IF label = "version" THEN Raise("TypeError") ELSE Return(0)

\* The try / except TypeError block that reads the other side's label: the
\* list, or the early "return 0", or the TypeError of the handler's own call.
OtherList(x, label) ==
    IF Subscriptable(x) /\ x[label].t = "str"
    THEN [kind |-> "list", list |-> _convert_label_to_list(x[label].s)]
    ELSE IF label = "version"
         THEN IF x.t = "str"
              THEN [kind |-> "list", list |-> _convert_label_to_list(x.s)]
              ELSE Raise("TypeError")
         ELSE Return(0)

NoShorter == [some |-> FALSE, list |-> << >>, value |-> 0]

Shorter(l, v) == [some |-> TRUE, list |-> l, value |-> v]

Fallthrough == [kind |-> "fallthrough"]

\* The loop with the tie-break tested one position late.
RECURSIVE PositionLoop_LateTieBreak(_, _, _, _, _)
PositionLoop_LateTieBreak(l_self, l_other, shorter, i, n) ==
    IF i >= n THEN Fallthrough
    ELSE IF i + 1 > Len(l_self) \/ i + 1 > Len(l_other) THEN Raise("IndexError")
    ELSE LET retval == _label_cmp__(l_self[i + 1], l_other[i + 1])
         IN  IF retval = 0
             THEN IF shorter.some /\ Len(shorter.list) <= i
                  THEN Return(shorter.value)
                  ELSE PositionLoop_LateTieBreak(l_self, l_other, shorter, i + 1, n)
             ELSE Return(retval)

\* The loop going on after a non-zero segment result, a later one winning.
RECURSIVE PositionLoop_LastVerdict(_, _, _, _, _)
PositionLoop_LastVerdict(l_self, l_other, shorter, i, n) ==
    IF i >= n THEN Fallthrough
    ELSE IF i + 1 > Len(l_self) \/ i + 1 > Len(l_other) THEN Raise("IndexError")
    ELSE LET retval == _label_cmp__(l_self[i + 1], l_other[i + 1])
         IN  IF retval = 0
             THEN IF shorter.some /\ Len(shorter.list) <= i + 1
                  THEN Return(shorter.value)
                  ELSE PositionLoop_LastVerdict(l_self, l_other, shorter, i + 1, n)
             ELSE LET later == PositionLoop_LastVerdict(l_self, l_other, shorter, i + 1, n)
                  IN  IF later.kind = "return" THEN later ELSE Return(retval)

\* for i in rng: i is the 0-based index, n = len(rng).
RECURSIVE PositionLoop(_, _, _, _, _)
PositionLoop(l_self, l_other, shorter, i, n) ==
    IF i >= n THEN Fallthrough
    ELSE IF i + 1 > Len(l_self) \/ i + 1 > Len(l_other) THEN Raise("IndexError")
    ELSE LET retval == _label_cmp__(l_self[i + 1], l_other[i + 1])
         IN  IF retval = 0
             THEN IF shorter.some /\ Len(shorter.list) <= i + 1
                  THEN Return(shorter.value)
                  ELSE PositionLoop(l_self, l_other, shorter, i + 1, n)
             ELSE Return(retval)

\* The body with the same verdict for either shorter side.
CompareLists_OneVerdict(l_self, l_other) ==
    IF Len(l_self) > Len(l_other)
    THEN PositionLoop(l_self, l_other, Shorter(l_other, __NEWER__), 0, Len(l_self))
    ELSE IF Len(l_self) < Len(l_other)
    THEN PositionLoop(l_self, l_other, Shorter(l_self, __NEWER__), 0, Len(l_other))
    ELSE PositionLoop(l_self, l_other, NoShorter, 0, Len(l_self))

\* The body of "for label in ['version', 'release']" once both lists are read.
CompareLists(l_self, l_other) ==
    IF Len(l_self) > Len(l_other)
    THEN PositionLoop(l_self, l_other, Shorter(l_other, __NEWER__), 0, Len(l_self))
    ELSE IF Len(l_self) < Len(l_other)
    THEN PositionLoop(l_self, l_other, Shorter(l_self, __OLDER__), 0, Len(l_other))
    ELSE PositionLoop(l_self, l_other, NoShorter, 0, Len(l_self))

\* One iteration of the loop over the labels.
LabelIteration(pkg, x, label) ==
    LET l_self == _convert_label_to_list(pkg[label].s)
        got == OtherList(x, label)
    IN  IF got.kind = "list" THEN CompareLists(l_self, got.list) ELSE got

\* The labels with the release read first.
LabelOrder_ReleaseFirst == <<"release", "version">>

LabelOrder == <<"version", "release">>

RECURSIVE LabelsLoop(_, _, _)
LabelsLoop(pkg, x, k) ==
    IF k > Len(LabelOrder) THEN Return(0)
    ELSE LET r == LabelIteration(pkg, x, LabelOrder[k])
         IN  IF r.kind = "fallthrough" THEN LabelsLoop(pkg, x, k + 1) ELSE r

__cmp__(pkg, x) == LabelsLoop(pkg, x, 1)

(***************************************************************************)
(* The rich comparison operators.                                          *)
(***************************************************************************)
\* try: other['name'] != self.data['name'], except TypeError: pass.
NameDiffers(pkg, x) == Subscriptable(x) /\ x.name # pkg.name

\* "if self.__cmp__(other) == v": the test, or the exception of the call.
CmpIs(pkg, x, vs) ==
    LET c == __cmp__(pkg, x)
    IN  IF Returned(c) THEN Return(c.value \in vs) ELSE c

__eq__(pkg, x) ==
    IF NameDiffers(pkg, x) THEN Return(FALSE) ELSE CmpIs(pkg, x, {0})

__ne__(pkg, x) ==
    IF NameDiffers(pkg, x) THEN Return(TRUE)
    ELSE CmpIs(pkg, x, {__OLDER__, __NEWER__})

\* < without the test on the names.
__lt__AnyName(pkg, x) == CmpIs(pkg, x, {__OLDER__})

__lt__(pkg, x) ==
    IF NameDiffers(pkg, x) THEN Raise("NotImplementedError")
    ELSE CmpIs(pkg, x, {__OLDER__})

__le__(pkg, x) ==
    IF NameDiffers(pkg, x) THEN Raise("NotImplementedError")
    ELSE CmpIs(pkg, x, {0, __OLDER__})

__gt__(pkg, x) ==
    IF NameDiffers(pkg, x) THEN Raise("NotImplementedError")
    ELSE CmpIs(pkg, x, {__NEWER__})

\* >= with the verdict of <= left in place.
__ge__OlderVerdict(pkg, x) ==
    IF NameDiffers(pkg, x) THEN Raise("NotImplementedError")
    ELSE CmpIs(pkg, x, {0, __OLDER__})

__ge__(pkg, x) ==
    IF NameDiffers(pkg, x) THEN Raise("NotImplementedError")
    ELSE CmpIs(pkg, x, {0, __NEWER__})

(***************************************************************************)
(* Spacewalk: the call list of __init__ and the names api_call sends.      *)
(***************************************************************************)
Underscore == 95

Dot == 46

UpperCase == 65 .. 90

\* re.sub(r'([A-Z])', r'_\1', name).lower()
RECURSIVE _convert_from_camel_case(_)
_convert_from_camel_case(name) ==
    IF name = << >> THEN << >>
    ELSE (IF Head(name) \in UpperCase
          THEN <<Underscore, Head(name) + 32>>
          ELSE <<Head(name)>>) \o _convert_from_camel_case(Tail(name))

\* c.split('_', 1)[0]
RECURSIVE BeforeUnderscore(_)
BeforeUnderscore(c) ==
    IF c = << >> \/ Head(c) = Underscore THEN << >>
    ELSE <<Head(c)>> \o BeforeUnderscore(Tail(c))

\* self._api_calllist = tuple(calls) + tuple(calls_alt), from the keys of
\* the values of the server's listing.
CallList(listing) ==
    LET calls == {BeforeUnderscore(c) : c \in listing}
    IN  calls \cup {_convert_from_camel_case(c) : c \in calls}

\* api = ".".join([namespace, method])
Join(namespace, method) == namespace \o <<Dot>> \o method

\* 'auth', 'logout'
auth == <<97, 117, 116, 104>>

logout == <<108, 111, 103, 111, 117, 116>>

\* 'auth.login' and 'api.get_api_call_list', the calls of __init__.
auth_login == <<97, 117, 116, 104, 46, 108, 111, 103, 105, 110>>

get_api_call_list == <<97, 112, 105, 46, 103, 101, 116, 95, 97, 112, 105, 95, 99, 97, 108, 108, 95, 108, 105, 115, 116>>

(***************************************************************************)
(* The fixtures of test_libhouston.py.                                     *)
(***************************************************************************)
\* pkg['version'] = '1.7.5rc2'
pkg_version == <<49, 46, 55, 46, 53, 114, 99, 50>>

\* '1.7.5rc2a', '2.0', '1.7.6', '1.8a', '1.7.5rc3'
newer_versions ==
    {<<49, 46, 55, 46, 53, 114, 99, 50, 97>>,
     <<50, 46, 48>>,
     <<49, 46, 55, 46, 54>>,
     <<49, 46, 56, 97>>,
     <<49, 46, 55, 46, 53, 114, 99, 51>>}

\* '1.6', '1.7.a', '1.7.5', '0.0.0.1', '1.7.5rc1'
older_versions ==
    {<<49, 46, 54>>,
     <<49, 46, 55, 46, 97>>,
     <<49, 46, 55, 46, 53>>,
     <<48, 46, 48, 46, 48, 46, 49>>,
     <<49, 46, 55, 46, 53, 114, 99, 49>>}

\* '01.07.05rc0002', '1.7.5rc2', '01.7.5rc2', '1_7.5-rc2'
identical_versions ==
    {<<48, 49, 46, 48, 55, 46, 48, 53, 114, 99, 48, 48, 48, 50>>,
     <<49, 46, 55, 46, 53, 114, 99, 50>>,
     <<48, 49, 46, 55, 46, 53, 114, 99, 50>>,
     <<49, 95, 55, 46, 53, 45, 114, 99, 50>>}

(***************************************************************************)
(* The state machine: a package, an operand, and the calls made on them.   *)
(***************************************************************************)
Labels == StringsUpTo(MaxLen)

TransLabels == StringsUpTo(MaxTransLen)

\* The releases of the packages the operators are tried on: '', '1', '2'.
OpReleases == {<< >>, <<49>>, <<50>>}

\* A PKG's data mapping: the three keys the comparison reads.
Packages(versions, releases) ==
    {Dict("foo", Str(v), Str(r)) : v \in versions, r \in releases}

BareStrings(versions) == {Str(v) : v \in versions}

Identities(names, versions, releases) ==
    {Dict(n, Str(v), Str(r)) : n \in names, v \in versions, r \in releases}

NoCall == [kind |-> "none"]

\* No Spacewalk object: nothing constructed, nothing sent.
NoKey == "none"

NoSession ==
    /\ pc = "start"
    /\ _key = NoKey
    /\ _api_calllist = {}
    /\ wire = << >>
    /\ args = << >>
    /\ server = << >>

Start(pkgs, operands) ==
    /\ self \in pkgs
    /\ other \in operands
    /\ op = "none"
    /\ result = NoCall
    /\ NoSession

Cmp ==
    /\ op' = "__cmp__"
    /\ result' = __cmp__(self, other)
    /\ UNCHANGED <<self, other, pc, _key, _api_calllist, wire, args, server>>

Eq ==
    /\ op' = "__eq__"
    /\ result' = __eq__(self, other)
    /\ UNCHANGED <<self, other, pc, _key, _api_calllist, wire, args, server>>

Ne ==
    /\ op' = "__ne__"
    /\ result' = __ne__(self, other)
    /\ UNCHANGED <<self, other, pc, _key, _api_calllist, wire, args, server>>

Lt ==
    /\ op' = "__lt__"
    /\ result' = __lt__(self, other)
    /\ UNCHANGED <<self, other, pc, _key, _api_calllist, wire, args, server>>

Le ==
    /\ op' = "__le__"
    /\ result' = __le__(self, other)
    /\ UNCHANGED <<self, other, pc, _key, _api_calllist, wire, args, server>>

Gt ==
    /\ op' = "__gt__"
    /\ result' = __gt__(self, other)
    /\ UNCHANGED <<self, other, pc, _key, _api_calllist, wire, args, server>>

\* >= answering from the previous call's outcome when there is one.
Ge_FromLastCall ==
    /\ op' = "__ge__"
    /\ result' = IF op = "__lt__" THEN result ELSE __ge__(self, other)
    /\ UNCHANGED <<self, other, pc, _key, _api_calllist, wire, args, server>>

Ge ==
    /\ op' = "__ge__"
    /\ result' = __ge__(self, other)
    /\ UNCHANGED <<self, other, pc, _key, _api_calllist, wire, args, server>>

\* _convert_label_to_list(other), the operand being the label.
Convert ==
    /\ op' = "_convert_label_to_list"
    /\ result' = ConvertCall(other)
    /\ UNCHANGED <<self, other, pc, _key, _api_calllist, wire, args, server>>

Next == Cmp \/ Eq \/ Ne \/ Lt \/ Le \/ Gt \/ Ge

NextCmp == Cmp

\* Every operator, on a package against bare strings and same-named packages.
Init ==
    Start(Packages(StringsUpTo(MaxOpLen), OpReleases),
          BareStrings(StringsUpTo(MaxOpLen))
              \cup Identities({"foo"}, StringsUpTo(MaxOpLen), OpReleases))

Spec == Init /\ [][Next]_vars

\* Every operator, on the test module's package against its version strings.
InitFixtures ==
    Start(Packages({pkg_version}, OpReleases),
          BareStrings(newer_versions \cup older_versions \cup identical_versions))

SpecFixtures == InitFixtures /\ [][Next]_vars

\* __cmp__ on two labels: a package's version against a bare version string.
InitLabels == Start(Packages(Labels, {<< >>}), BareStrings(Labels))

SpecLabels == InitLabels /\ [][NextCmp]_vars

\* __cmp__ on two labels, short enough to range over a third one.
InitTriples ==
    Start(Packages(TransLabels, {<< >>}), BareStrings(TransLabels))

SpecTriples == InitTriples /\ [][NextCmp]_vars

\* __cmp__ on two same-named identities (version, release).
InitIdentities ==
    Start(Packages(StringsUpTo(MaxVerLen), StringsUpTo(MaxRelLen)),
          Identities({"foo"}, StringsUpTo(MaxVerLen), StringsUpTo(MaxRelLen)))

SpecIdentities == InitIdentities /\ [][NextCmp]_vars

\* __cmp__ on two labels, its positional loop followed step by step.
InitLoop ==
    Start(Packages(StringsUpTo(MaxLoopLen), {<< >>}),
          BareStrings(StringsUpTo(MaxLoopLen)))

SpecLoop == InitLoop /\ [][NextCmp]_vars

\* _convert_label_to_list on a label: every short label and every fixture.
NextConvert == Convert

InitTokens ==
    Start(Packages({<< >>}, {<< >>}),
          BareStrings(Labels \cup {pkg_version} \cup newer_versions
                          \cup older_versions \cup identical_versions))

SpecTokens == InitTokens /\ [][NextConvert]_vars

\* Mappings with a name, and any value as version and as release.
Mappings(names, versions, releases) ==
    {Dict(n, v, r) : n \in names, v \in versions, r \in releases}

NonStrings == {Number(5), None}

\* Every operator, on a package against operands of every kind: mappings of
\* the same and of another name, with string and non-string fields, and bare
\* non-strings.
InitOperands ==
    Start(Packages(StringsUpTo(MaxOpLen), OpReleases),
          NonStrings
              \cup Mappings({"foo", "bar"},
                            {Str(v) : v \in StringsUpTo(MaxOpLen)} \cup {Number(5)},
                            {Str(r) : r \in OpReleases} \cup NonStrings))

SpecOperands == InitOperands /\ [][Next]_vars

(***************************************************************************)
(* The session of a Spacewalk object and the program that holds it.        *)
(* pc is the program's position: "start", "constructed" (the object exists *)
(* and is used by hand), "with" (inside the with block), "raising" (an     *)
(* exception is leaving the block), "left" / "left_raising" (__exit__ has  *)
(* run), "done" (the program has ended).  wire is the list of the remote   *)
(* calls sent so far, each with the method that sent it; args holds the    *)
(* arguments of the last call of a library method, and server the          *)
(* channels the server has, each with the label of its parent.             *)
(***************************************************************************)
SessionKeys == {"key1", "key2"}

\* Keys of the server's listing: 'logout_1', 'auth.logout_1' and
\* 'api.getVersion_1'.
ListingKeys ==
    {<<108, 111, 103, 111, 117, 116, 95, 49>>,
     <<97, 117, 116, 104, 46, 108, 111, 103, 111, 117, 116, 95, 49>>,
     <<97, 112, 105, 46, 103, 101, 116, 86, 101, 114, 115, 105, 111, 110, 95, 49>>}

\* (namespace, method) pairs given to api_call: ('auth', 'logout') and
\* ('api', 'get_version').
ApiRequests == {<<auth, logout>>, <<<<97, 112, 105>>, <<103, 101, 116, 95, 118, 101, 114, 115, 105, 111, 110>>>>}

Sent(api, key, by) == [api |-> api, key |-> key, by |-> by]

\* The body of api_call: what it sends and how it ends, the remote side
\* answering with a Fault or not.
\* The test on the call list left out.
ApiCallSends_Any(api) == api = api

ApiCallSends(api) == api \in _api_calllist

ApiCallOutcome(api, fault) ==
    IF ~ApiCallSends(api) \/ fault THEN Raise("SpacewalkAPIError") ELSE Return(None)

\* Spacewalk(...): auth.login, then the listing; a Fault of the login leaves
\* no object.
__init__ ==
    /\ pc = "start"
    /\ op' = "__init__"
    /\ \E key \in SessionKeys, listing \in SUBSET ListingKeys, fault \in BOOLEAN :
          IF fault
          THEN /\ wire' = <<Sent(auth_login, NoKey, "__init__")>>
               /\ result' = Raise("Fault")
               /\ pc' = "done"
               /\ UNCHANGED <<_key, _api_calllist>>
          ELSE /\ wire' = <<Sent(auth_login, NoKey, "__init__"),
                            Sent(get_api_call_list, key, "__init__")>>
               /\ result' = Return(None)
               /\ pc' = "constructed"
               /\ _key' = key
               /\ _api_calllist' = CallList(listing)
    /\ UNCHANGED <<self, other, args, server>>

\* with ... as spw:
__enter__ ==
    /\ pc = "constructed"
    /\ op' = "__enter__"
    /\ result' = Return(None)
    /\ pc' = "with"
    /\ UNCHANGED <<self, other, _key, _api_calllist, wire, args, server>>

\* spw.api_call(namespace, method), by hand or inside the block; a raised
\* error is handled by the program or leaves the block / ends the program.
api_call ==
    /\ pc \in {"constructed", "with"}
    /\ Len(wire) < 2 + MaxCalls
    /\ op' = "api_call"
    /\ \E request \in ApiRequests, fault \in BOOLEAN, handled \in BOOLEAN :
          LET api == Join(request[1], request[2])
              outcome == ApiCallOutcome(api, fault)
          IN  /\ wire' = IF ApiCallSends(api)
                         THEN Append(wire, Sent(api, _key, "api_call")) ELSE wire
              /\ result' = outcome
              /\ args' = request
              /\ pc' = IF Returned(outcome) \/ handled THEN pc
                       ELSE IF pc = "with" THEN "raising" ELSE "done"
    /\ UNCHANGED <<self, other, _key, _api_calllist, server>>

\* Any other exception raised inside the block.
BodyRaises ==
    /\ pc = "with"
    /\ op' = "body"
    /\ result' = Raise("Exception")
    /\ pc' = "raising"
    /\ UNCHANGED <<self, other, _key, _api_calllist, wire, args, server>>

\* __exit__(exc_type, exc_vl, exc_tb): self.api_call('auth', 'logout'), with
\* exc_type None or not.
__exit__ ==
    /\ pc \in {"with", "raising"}
    /\ op' = "__exit__"
    /\ \E fault \in BOOLEAN :
          LET api == Join(auth, logout)
          IN  /\ wire' = IF ApiCallSends(api)
                         THEN Append(wire, Sent(api, _key, "__exit__")) ELSE wire
              /\ result' = ApiCallOutcome(api, fault)
    /\ pc' = IF pc = "with" THEN "left" ELSE "left_raising"
    /\ UNCHANGED <<self, other, _key, _api_calllist, args, server>>

\* The program ends with the object never used in a with statement.
Finish ==
    /\ pc = "constructed"
    /\ pc' = "done"
    /\ UNCHANGED <<self, other, op, result, _key, _api_calllist, wire, args, server>>

NextSession == __init__ \/ __enter__ \/ api_call \/ BodyRaises \/ __exit__ \/ Finish

InitSession == Start(Packages({<< >>}, {<< >>}), BareStrings({<< >>}))

SpecSession == InitSession /\ [][NextSession]_vars

(***************************************************************************)
(* The library methods of a constructed Spacewalk object.  Each method is  *)
(* one step: its calls of api_call are sent in the order of the code, and  *)
(* the server's answers and Faults are inputs of the step.                 *)
(***************************************************************************)
\* A remote call with the arguments that follow the session key.
SentWith(api, key, by, rest) == [api |-> api, key |-> key, by |-> by, args |-> rest]

\* The object after __init__, its call list built from one of the listings.
Constructed(listings) ==
    /\ self = Dict("foo", Str(<< >>), Str(<< >>))
    /\ other = Str(<< >>)
    /\ op = "__init__"
    /\ result = Return(None)
    /\ pc = "constructed"
    /\ _key \in SessionKeys
    /\ _api_calllist \in {CallList(l) : l \in SUBSET listings}
    /\ wire = <<Sent(auth_login, NoKey, "__init__"),
                Sent(get_api_call_list, _key, "__init__")>>
    /\ args = << >>

\* One api_call inside a method: what is on the wire after it and how it
\* ends (answer is the server's answer when there is no Fault).
ApiCallStep(sent, api, by, rest, fault, answer) ==
    IF ~ApiCallSends(api)
    THEN [sent |-> sent, outcome |-> Raise("SpacewalkAPIError")]
    ELSE [sent |-> Append(sent, SentWith(api, _key, by, rest)),
          outcome |-> IF fault THEN Raise("SpacewalkAPIError") ELSE Return(answer)]

\* 'packages.search'
packages_search == <<112, 97, 99, 107, 97, 103, 101, 115, 46, 115, 101, 97, 114, 99, 104>>

\* 'advanced', 'advanced_with_channel', 'advanced_with_act_key'
advanced == <<97, 100, 118, 97, 110, 99, 101, 100>>

advanced_with_channel == <<97, 100, 118, 97, 110, 99, 101, 100, 95, 119, 105, 116, 104, 95, 99, 104, 97, 110, 110, 101, 108>>

advanced_with_act_key == <<97, 100, 118, 97, 110, 99, 101, 100, 95, 119, 105, 116, 104, 95, 97, 99, 116, 95, 107, 101, 121>>

\* Listing keys 'packages.search.advanced_1',
\* 'packages.search.advancedWithChannel_2' and
\* 'packages.search.advancedWithActKey_2'.
QueryListing ==
    {<<112, 97, 99, 107, 97, 103, 101, 115, 46, 115, 101, 97, 114, 99, 104, 46, 97, 100, 118, 97, 110, 99, 101, 100, 95, 49>>,
     <<112, 97, 99, 107, 97, 103, 101, 115, 46, 115, 101, 97, 114, 99, 104, 46, 97, 100, 118, 97, 110, 99, 101, 100, 87, 105, 116, 104, 67, 104, 97, 110, 110, 101, 108, 95, 50>>,
     <<112, 97, 99, 107, 97, 103, 101, 115, 46, 115, 101, 97, 114, 99, 104, 46, 97, 100, 118, 97, 110, 99, 101, 100, 87, 105, 116, 104, 65, 99, 116, 75, 101, 121, 95, 50>>}

\* Channel labels and activation keys given to lucerne_query, and the
\* package lists the server answers with.
QueryTargets == {"channel1", "channel2", "actkey1"}

QueryChannels == {None, List(<< >>), List(<<"channel1">>), List(<<"channel1", "channel2">>)}

QueryKeys == {None, List(<< >>), List(<<"actkey1">>)}

QueryAnswers == {<< >>, <<1>>, <<1, 2>>}

\* try: for t in targets: rv.extend(self.api_call(...)); except TypeError:
\* pass.  The loop from position i on, with rv and the wire so far.
RECURSIVE QueryLoop(_, _, _, _, _, _, _)
QueryLoop(method, targets, answers, faults, i, rv, sent) ==
    IF targets.t # "list" \/ i > Len(targets.items)
    THEN [sent |-> sent, outcome |-> Return(rv)]
    ELSE LET target == targets.items[i]
             step == ApiCallStep(sent, Join(packages_search, method), "lucerne_query",
                                 <<"query", target>>, target \in faults, answers[target])
         IN  IF Returned(step.outcome)
             THEN QueryLoop(method, targets, answers, faults, i + 1,
                            rv \o step.outcome.value, step.sent)
             ELSE step

\* lucerne_query(query, channels, keys)
LucerneQuery(channels, keys, answers, faults) ==
    IF ~Truthy(channels) /\ ~Truthy(keys)
    THEN ApiCallStep(wire, Join(packages_search, advanced), "lucerne_query",
                     <<"query">>, faults # {}, answers["channel1"])
    ELSE LET first == QueryLoop(advanced_with_channel, channels, answers, faults,
                                1, << >>, wire)
         IN  IF Returned(first.outcome)
             THEN QueryLoop(advanced_with_act_key, keys, answers, faults,
                            1, first.outcome.value, first.sent)
             ELSE first

lucerne_query ==
    /\ pc = "constructed"
    /\ op' = "lucerne_query"
    /\ \E channels \in QueryChannels, keys \in QueryKeys,
          answers \in [QueryTargets -> QueryAnswers], faults \in SUBSET QueryTargets :
          LET call == LucerneQuery(channels, keys, answers, faults)
          IN  /\ args' = <<channels, keys>>
              /\ wire' = call.sent
              /\ result' = call.outcome
    /\ pc' = "done"
    /\ UNCHANGED <<self, other, _key, _api_calllist, server>>

NextQuery == lucerne_query

InitQuery == Constructed(QueryListing) /\ server = << >>

SpecQuery == InitQuery /\ [][NextQuery]_vars

(***************************************************************************)
(* Channels.  A channel label is a tuple of strings; the server is a       *)
(* function from the labels of its channels to the label of the parent     *)
(* (the empty tuple for a base channel).  A method runs from a record of   *)
(* the wire and the server so far, and gives that record with its outcome. *)
(* The server answers a call with a Fault when the call is the faultAt-th  *)
(* remote call of the step, or when the channel of the call is missing.    *)
(***************************************************************************)
get_details_api == <<99, 104, 97, 110, 110, 101, 108, 46, 115, 111, 102, 116, 119, 97, 114, 101, 46, 103, 101, 116, 95, 100, 101, 116, 97, 105, 108, 115>>

listChildren_api == <<99, 104, 97, 110, 110, 101, 108, 46, 115, 111, 102, 116, 119, 97, 114, 101, 46, 108, 105, 115, 116, 67, 104, 105, 108, 100, 114, 101, 110>>

clone_api == <<99, 104, 97, 110, 110, 101, 108, 46, 115, 111, 102, 116, 119, 97, 114, 101, 46, 99, 108, 111, 110, 101>>

delete_api == <<99, 104, 97, 110, 110, 101, 108, 46, 115, 111, 102, 116, 119, 97, 114, 101, 46, 100, 101, 108, 101, 116, 101>>

NoLabel == << >>

\* Position of the remote call that gets a Fault whatever it asks (0: none).
FaultPositions == 0 .. 12

Running == [sent |-> wire, srv |-> server, outcome |-> Return(None)]

Ending(st, outcome) == [st EXCEPT !.outcome = outcome]

Faults(st, faultAt) == Len(st.sent) + 1 - Len(wire) = faultAt

\* The details the server gives of one of its channels.
Details(srv, label) ==
    [label |-> label, name |-> label, parent_channel_label |-> srv[label]]

\* The labels of a set in the order the server lists them.
RECURSIVE Listed(_)
Listed(labels) ==
    IF labels = {} THEN << >>
    ELSE LET first == CHOOSE l \in labels : TRUE
         IN  <<first>> \o Listed(labels \ {first})

Children(srv, label) == Listed({l \in DOMAIN srv : srv[l] = label})

\* The server with one more channel.
WithChannel(srv, label, parent) ==
    [l \in DOMAIN srv \cup {label} |-> IF l = label THEN parent ELSE srv[l]]

WithoutChannel(srv, label) == [l \in DOMAIN srv \ {label} |-> srv[l]]

\* self.api_call('channel.software', 'get_details', channel)
GetDetails(st, channel, by, faultAt) ==
    IF ~ApiCallSends(get_details_api) THEN Ending(st, Raise("SpacewalkAPIError"))
    ELSE [sent |-> Append(st.sent, SentWith(get_details_api, _key, by, <<channel>>)),
          srv |-> st.srv,
          outcome |-> IF Faults(st, faultAt) \/ channel \notin DOMAIN st.srv
                      THEN Raise("SpacewalkAPIError")
                      ELSE Return(Details(st.srv, channel))]

\* Any SpacewalkAPIError of the call is taken as "no such channel".
channel_exists(st, channel, faultAt) ==
    LET call == GetDetails(st, channel, "channel_exists", faultAt)
    IN  IF Returned(call.outcome) THEN Ending(call, Return(TRUE))
        ELSE Ending(call, Raise("SpacewalkChannelNotFound"))

(***************************************************************************)
(* Spacewalklib.py and the commands of spacewalk-channel-mgmnt.py.         *)
(***************************************************************************)
\* Spacewalklib get_channel_details: every error but "not found" becomes
\* SpacewalkError.
get_channel_details(st, channel, faultAt) ==
    LET call == GetDetails(st, channel, "get_channel_details", faultAt)
    IN  IF Returned(call.outcome) THEN call ELSE Ending(call, Raise("SpacewalkError"))

\* Spacewalklib list_children: self._client.channel.software.listChildren.
list_children(st, channel, faultAt) ==
    [sent |-> Append(st.sent, SentWith(listChildren_api, _key, "list_children", <<channel>>)),
     srv |-> st.srv,
     outcome |-> IF Faults(st, faultAt) \/ channel \notin DOMAIN st.srv
                 THEN Raise("SpacewalkError")
                 ELSE Return(Children(st.srv, channel))]

\* Spacewalklib clone_channel(channel, new_channel, state): the server
\* refuses a clone of a missing channel or under a label it already has.
clone_channel(st, channel, new_channel, state, faultAt) ==
    LET check == channel_exists(st, new_channel.label, faultAt)
    IN  IF Returned(check.outcome) THEN Ending(check, Raise("SpacewalkError"))
        ELSE LET refused == \/ Faults(check, faultAt)
                            \/ channel \notin DOMAIN check.srv
                            \/ new_channel.label \in DOMAIN check.srv
             IN  [sent |-> Append(check.sent,
                                  SentWith(clone_api, _key, "clone_channel",
                                           <<channel, new_channel, state>>)),
                  srv |-> IF refused THEN check.srv
                          ELSE WithChannel(check.srv, new_channel.label,
                                           new_channel.parent_label),
                  outcome |-> IF refused THEN Raise("SpacewalkError") ELSE Return(None)]

\* 'dev-{proj}-{mon}-{tag}-{orig}'
NewLabel(orig) == <<"dev", "proj", "mon", "tag">> \o orig

\* new_parent / new_channel of the clone command: the base's clone has no
\* parent_label.
NewChannel(details, parent_label) ==
    [name |-> NewLabel(details.name), label |-> NewLabel(details.label),
     parent_label |-> parent_label]

\* The loop going on to the next child after a failed clone.
RECURSIVE CloneChildren_KeepsGoing(_, _, _, _, _)
CloneChildren_KeepsGoing(st, children, i, parent_label, faultAt) ==
    IF i > Len(children) THEN Ending(st, Return(None))
    ELSE LET chann == get_channel_details(st, children[i], faultAt)
         IN  IF ~Returned(chann.outcome) THEN chann
             ELSE CloneChildren_KeepsGoing(
                      clone_channel(chann, chann.outcome.value.label,
                                    NewChannel(chann.outcome.value, parent_label),
                                    FALSE, faultAt),
                      children, i + 1, parent_label, faultAt)

\* for channel in children_to_clone: from the i-th child on.
RECURSIVE CloneChildren(_, _, _, _, _)
CloneChildren(st, children, i, parent_label, faultAt) ==
    IF i > Len(children) THEN Ending(st, Return(None))
    ELSE LET chann == get_channel_details(st, children[i], faultAt)
         IN  IF ~Returned(chann.outcome) THEN chann
             ELSE LET cloned == clone_channel(chann, chann.outcome.value.label,
                                              NewChannel(chann.outcome.value, parent_label),
                                              FALSE, faultAt)
                  IN  IF ~Returned(cloned.outcome)
                      THEN Ending(cloned, Raise("SystemExit"))
                      ELSE CloneChildren(cloned, children, i + 1, parent_label, faultAt)

\* The body of the with block of clone(a).
CloneBody(channel, faultAt) ==
    LET parent_details == get_channel_details(Running, channel, faultAt)
    IN  IF ~Returned(parent_details.outcome)
        THEN Ending(parent_details, Raise("SystemExit"))
        ELSE IF parent_details.outcome.value.parent_channel_label # NoLabel
        THEN Ending(parent_details, Raise("SystemExit"))
        ELSE LET children_to_clone == list_children(parent_details, channel, faultAt)
             IN  IF ~Returned(children_to_clone.outcome)
                 THEN Ending(children_to_clone, Raise("SystemExit"))
                 ELSE LET new_parent == NewChannel(parent_details.outcome.value, NoLabel)
                          cloned == clone_channel(children_to_clone, channel, new_parent,
                                                  FALSE, faultAt)
                      IN  IF ~Returned(cloned.outcome)
                          THEN Ending(cloned, Raise("SystemExit"))
                          ELSE CloneChildren(cloned, children_to_clone.outcome.value, 1,
                                             new_parent.label, faultAt)

\* Leaving the with block: __exit__ calls api_call('auth', 'logout'); its
\* error replaces the outcome of the body.
Leave(st, faultAt) ==
    LET call == ApiCallStep(st.sent, Join(auth, logout), "__exit__", << >>,
                            Faults(st, faultAt), None)
    IN  [sent |-> call.sent, srv |-> st.srv,
         outcome |-> IF Returned(call.outcome) THEN st.outcome ELSE call.outcome]

\* The channels the server may start with: any of the base channel, its two
\* children and their clones.
AllChannels ==
    [l \in {<<"base">>, <<"child1">>, <<"child2">>, NewLabel(<<"base">>),
            NewLabel(<<"child1">>)}
        |-> IF l \in {<<"child1">>, <<"child2">>} THEN <<"base">>
            ELSE IF l = NewLabel(<<"child1">>) THEN NewLabel(<<"base">>)
            ELSE NoLabel]

Servers == {[l \in present |-> AllChannels[l]] : present \in SUBSET DOMAIN AllChannels}

\* Listing keys 'channel.software.getDetails_2', 'channel.software.delete_2'
\* and 'auth.logout_1'.
ChannelListing ==
    {<<99, 104, 97, 110, 110, 101, 108, 46, 115, 111, 102, 116, 119, 97, 114, 101, 46, 103, 101, 116, 68, 101, 116, 97, 105, 108, 115, 95, 50>>,
     <<99, 104, 97, 110, 110, 101, 108, 46, 115, 111, 102, 116, 119, 97, 114, 101, 46, 100, 101, 108, 101, 116, 101, 95, 50>>,
     <<97, 117, 116, 104, 46, 108, 111, 103, 111, 117, 116, 95, 49>>}

\* spacewalk-channel-mgmnt clone -c channel -p proj -t tag
clone ==
    /\ pc = "constructed"
    /\ op' = "clone"
    /\ \E channel \in {<<"base">>, <<"child1">>}, faultAt \in FaultPositions :
          LET run == Leave(CloneBody(channel, faultAt), faultAt)
          IN  /\ args' = <<channel>>
              /\ wire' = run.sent
              /\ server' = run.srv
              /\ result' = run.outcome
    /\ pc' = "done"
    /\ UNCHANGED <<self, other, _key, _api_calllist>>

NextClone == clone

InitClone == Constructed(ChannelListing) /\ server \in Servers

SpecClone == InitClone /\ [][NextClone]_vars

(***************************************************************************)
(* Cloning one channel: Channel.clone of libhouston.py and clone_channel   *)
(* of Spacewalklib.py.                                                     *)
(***************************************************************************)
\* Channel.clone(new_channel, state) of the Channel object of label: the
\* clone call goes through api_call, and every exception of it becomes
\* SpacewalkError.
ChannelClone(st, label, new_channel, state, faultAt) ==
    LET check == channel_exists(st, new_channel.label, faultAt)
    IN  IF Returned(check.outcome) THEN Ending(check, Raise("SpacewalkError"))
        ELSE IF ~ApiCallSends(clone_api) THEN Ending(check, Raise("SpacewalkError"))
        ELSE LET refused == \/ Faults(check, faultAt)
                            \/ label \notin DOMAIN check.srv
                            \/ new_channel.label \in DOMAIN check.srv
             IN  [sent |-> Append(check.sent,
                                  SentWith(clone_api, _key, "Channel.clone",
                                           <<label, new_channel, state>>)),
                  srv |-> IF refused THEN check.srv
                          ELSE WithChannel(check.srv, new_channel.label,
                                           new_channel.parent_label),
                  outcome |-> IF refused THEN Raise("SpacewalkError") ELSE Return(None)]

\* The channels cloned and the details given for their clones.
CloneSources == {<<"base">>, <<"child1">>}

NewChannels ==
    {NewChannel(Details(AllChannels, l), AllChannels[NewLabel(l)]) : l \in CloneSources}

\* The listing of ChannelListing and 'channel.software.clone_3'.
CloneListing ==
    ChannelListing \cup {<<99, 104, 97, 110, 110, 101, 108, 46, 115, 111, 102, 116, 119, 97, 114, 101, 46, 99, 108, 111, 110, 101, 95, 51>>}

\* Channel(label, spw).clone(new_channel, state): the Channel object was
\* built with api_call('channel.software', 'get_details', label).
Channel_clone ==
    /\ pc = "constructed"
    /\ ApiCallSends(get_details_api)
    /\ op' = "Channel.clone"
    /\ \E label \in CloneSources, new_channel \in NewChannels, state \in BOOLEAN,
          faultAt \in FaultPositions :
          LET run == ChannelClone(Running, label, new_channel, state, faultAt)
          IN  /\ args' = <<label, new_channel, state>>
              /\ wire' = run.sent
              /\ server' = run.srv
              /\ result' = run.outcome
    /\ pc' = "done"
    /\ UNCHANGED <<self, other, _key, _api_calllist>>

\* Spacewalklib: spw.clone_channel(channel, new_channel, state)
Spacewalk_clone_channel ==
    /\ pc = "constructed"
    /\ op' = "clone_channel"
    /\ \E channel \in CloneSources, new_channel \in NewChannels, state \in BOOLEAN,
          faultAt \in FaultPositions :
          LET run == clone_channel(Running, channel, new_channel, state, faultAt)
          IN  /\ args' = <<channel, new_channel, state>>
              /\ wire' = run.sent
              /\ server' = run.srv
              /\ result' = run.outcome
    /\ pc' = "done"
    /\ UNCHANGED <<self, other, _key, _api_calllist>>

NextChannelClone == Channel_clone \/ Spacewalk_clone_channel

InitChannelClone == Constructed(CloneListing) /\ server \in Servers

SpecChannelClone == InitChannelClone /\ [][NextChannelClone]_vars

(***************************************************************************)
(* Spacewalk.subscribe_base_channel                                        *)
(***************************************************************************)
\* 'system.list_subscribable_base_channels', 'system.set_base_channel',
\* 'system.list_subscribable_child_channels', 'system.set_child_channels'
list_subscribable_base_channels_api == <<115, 121, 115, 116, 101, 109, 46, 108, 105, 115, 116, 95, 115, 117, 98, 115, 99, 114, 105, 98, 97, 98, 108, 101, 95, 98, 97, 115, 101, 95, 99, 104, 97, 110, 110, 101, 108, 115>>

set_base_channel_api == <<115, 121, 115, 116, 101, 109, 46, 115, 101, 116, 95, 98, 97, 115, 101, 95, 99, 104, 97, 110, 110, 101, 108>>

list_subscribable_child_channels_api == <<115, 121, 115, 116, 101, 109, 46, 108, 105, 115, 116, 95, 115, 117, 98, 115, 99, 114, 105, 98, 97, 98, 108, 101, 95, 99, 104, 105, 108, 100, 95, 99, 104, 97, 110, 110, 101, 108, 115>>

set_child_channels_api == <<115, 121, 115, 116, 101, 109, 46, 115, 101, 116, 95, 99, 104, 105, 108, 100, 95, 99, 104, 97, 110, 110, 101, 108, 115>>

\* self.api_call(...) of a method that runs on the record st.
ApiCall(st, api, by, rest, faultAt, answer) ==
    LET call == ApiCallStep(st.sent, api, by, rest, Faults(st, faultAt), answer)
    IN  [sent |-> call.sent, srv |-> st.srv, outcome |-> call.outcome]

\* x in list
InList(x, list) == \E i \in 1 .. Len(list) : list[i] = x

\* if recurse: the subscribable child channels are asked for and set.
SubscribeChildren(st, systemid, recurse, childAnswer, faultAt) ==
    IF ~recurse THEN Ending(st, Return(None))
    ELSE LET listed == ApiCall(st, list_subscribable_child_channels_api,
                               "subscribe_base_channel", <<systemid>>, faultAt,
                               childAnswer)
         IN  IF ~Returned(listed.outcome) THEN listed
             ELSE LET sub_chans == listed.outcome.value
                      set == ApiCall(listed, set_child_channels_api,
                                     "subscribe_base_channel", <<systemid, sub_chans>>,
                                     faultAt, None)
                  IN  IF ~Returned(set.outcome) THEN set
                      ELSE Ending(set, Return(None))

\* The method without the test "channel not in subs".
SubscribeBaseChannel_AnyBase(st, systemid, channel, recurse, baseAnswer, childAnswer, faultAt) ==
    LET listed == ApiCall(st, list_subscribable_base_channels_api,
                          "subscribe_base_channel", <<systemid>>, faultAt, baseAnswer)
    IN  IF ~Returned(listed.outcome) THEN listed
        ELSE IF channel = << >> THEN Ending(listed, Raise("SpacewalkAPIError"))
        ELSE LET exists == channel_exists(listed, channel, faultAt)
             IN  IF ~Returned(exists.outcome) THEN exists
                 ELSE LET set == ApiCall(exists, set_base_channel_api,
                                         "subscribe_base_channel",
                                         <<systemid, channel>>, faultAt, None)
                      IN  IF ~Returned(set.outcome) THEN set
                          ELSE SubscribeChildren(set, systemid, recurse, childAnswer,
                                                 faultAt)

\* subscribe_base_channel(systemid, channel, recurse); baseAnswer and
\* childAnswer are the labels of the server's two lists.  An empty channel
\* ('' or None) is the empty tuple.
SubscribeBaseChannel(st, systemid, channel, recurse, baseAnswer, childAnswer, faultAt) ==
    LET listed == ApiCall(st, list_subscribable_base_channels_api,
                          "subscribe_base_channel", <<systemid>>, faultAt, baseAnswer)
    IN  IF ~Returned(listed.outcome) THEN listed
        ELSE LET subs == listed.outcome.value
             IN  IF channel = << >> THEN Ending(listed, Raise("SpacewalkAPIError"))
                 ELSE LET exists == channel_exists(listed, channel, faultAt)
                      IN  IF ~Returned(exists.outcome) THEN exists
                          ELSE IF ~exists.outcome.value
                          THEN Ending(exists, Raise("SpacewalkChannelNotFound"))
                          ELSE IF ~InList(channel, subs)
                          THEN Ending(exists, Raise("SpacewalkAPIError"))
                          ELSE LET set == ApiCall(exists, set_base_channel_api,
                                                  "subscribe_base_channel",
                                                  <<systemid, channel>>, faultAt, None)
                               IN  IF ~Returned(set.outcome) THEN set
                                   ELSE SubscribeChildren(set, systemid, recurse,
                                                          childAnswer, faultAt)

\* The inputs of the method and the answers of the server.
SystemIds == {1000010000}

SubscribeChannels == {<< >>, <<"base">>, <<"child1">>}

BaseAnswers == {<< >>, <<<<"base">>>>, <<<<"base">>, <<"child1">>>>}

ChildAnswers == {<< >>, <<<<"child1">>, <<"child2">>>>}

SubscribeFaults == 0 .. 5

\* The channels of the server: any of the base channel and its first child.
SubscribeServers ==
    {[l \in present |-> AllChannels[l]] : present \in SUBSET {<<"base">>, <<"child1">>}}

\* Listing keys 'system.listSubscribableBaseChannels_2',
\* 'system.setBaseChannel_3', 'system.listSubscribableChildChannels_2',
\* 'system.setChildChannels_3' and 'channel.software.getDetails_2'.
SubscribeListing ==
    {<<115, 121, 115, 116, 101, 109, 46, 108, 105, 115, 116, 83, 117, 98, 115, 99, 114, 105, 98, 97, 98, 108, 101, 66, 97, 115, 101, 67, 104, 97, 110, 110, 101, 108, 115, 95, 50>>,
     <<115, 121, 115, 116, 101, 109, 46, 115, 101, 116, 66, 97, 115, 101, 67, 104, 97, 110, 110, 101, 108, 95, 51>>,
     <<115, 121, 115, 116, 101, 109, 46, 108, 105, 115, 116, 83, 117, 98, 115, 99, 114, 105, 98, 97, 98, 108, 101, 67, 104, 105, 108, 100, 67, 104, 97, 110, 110, 101, 108, 115, 95, 50>>,
     <<115, 121, 115, 116, 101, 109, 46, 115, 101, 116, 67, 104, 105, 108, 100, 67, 104, 97, 110, 110, 101, 108, 115, 95, 51>>,
     <<99, 104, 97, 110, 110, 101, 108, 46, 115, 111, 102, 116, 119, 97, 114, 101, 46, 103, 101, 116, 68, 101, 116, 97, 105, 108, 115, 95, 50>>}

subscribe_base_channel ==
    /\ pc = "constructed"
    /\ op' = "subscribe_base_channel"
    /\ \E systemid \in SystemIds, channel \in SubscribeChannels, recurse \in BOOLEAN,
          baseAnswer \in BaseAnswers, childAnswer \in ChildAnswers,
          faultAt \in SubscribeFaults :
          LET run == SubscribeBaseChannel(Running, systemid, channel, recurse,
                                          baseAnswer, childAnswer, faultAt)
          IN  /\ args' = <<systemid, channel, recurse>>
              /\ wire' = run.sent
              /\ server' = run.srv
              /\ result' = run.outcome
    /\ pc' = "done"
    /\ UNCHANGED <<self, other, _key, _api_calllist>>

NextSubscribe == subscribe_base_channel

InitSubscribe == Constructed(SubscribeListing) /\ server \in SubscribeServers

SpecSubscribe == InitSubscribe /\ [][NextSubscribe]_vars

(***************************************************************************)
(* The delete command of spacewalk-channel-mgmnt.py.                       *)
(***************************************************************************)
\* Spacewalklib remove_channel: api_call('channel.software', 'delete',
\* channel), every error of it raised as SpacewalkError.  The server
\* refuses to delete a missing channel or one that has children.
remove_channel(st, channel, faultAt) ==
    IF ~ApiCallSends(delete_api) THEN Ending(st, Raise("SpacewalkError"))
    ELSE LET refused == \/ Faults(st, faultAt)
                        \/ channel \notin DOMAIN st.srv
                        \/ Children(st.srv, channel) # << >>
         IN  [sent |-> Append(st.sent,
                              SentWith(delete_api, _key, "remove_channel", <<channel>>)),
              srv |-> IF refused THEN st.srv ELSE WithoutChannel(st.srv, channel),
              outcome |-> IF refused THEN Raise("SpacewalkError") ELSE Return(TRUE)]

\* The loop going on to the next child after a failed removal.
RECURSIVE RemoveChildren_KeepsGoing(_, _, _, _)
RemoveChildren_KeepsGoing(st, child_channels, i, faultAt) ==
    IF i > Len(child_channels) THEN Ending(st, Return(None))
    ELSE RemoveChildren_KeepsGoing(remove_channel(st, child_channels[i], faultAt),
                                   child_channels, i + 1, faultAt)

\* for child in child_channels: spw.remove_channel(child), from the i-th
\* child on.
RECURSIVE RemoveChildren(_, _, _, _)
RemoveChildren(st, child_channels, i, faultAt) ==
    IF i > Len(child_channels) THEN Ending(st, Return(None))
    ELSE LET removed == remove_channel(st, child_channels[i], faultAt)
         IN  IF ~Returned(removed.outcome) THEN removed
             ELSE RemoveChildren(removed, child_channels, i + 1, faultAt)

\* The body of the with block of delete(a).  "if not spw.channel_exists"
\* tests the bound method, which is always true.
DeleteBody(channel, recursive, faultAt) ==
    LET child_channels == list_children(Running, channel, faultAt)
    IN  IF ~Returned(child_channels.outcome) THEN child_channels
        ELSE IF child_channels.outcome.value # << >> /\ ~recursive
        THEN Ending(child_channels, Raise("SystemExit"))
        ELSE LET children == IF recursive
                             THEN RemoveChildren(child_channels,
                                                 child_channels.outcome.value, 1, faultAt)
                             ELSE child_channels
             IN  IF ~Returned(children.outcome) THEN children
                 ELSE LET removed == remove_channel(children, channel, faultAt)
                      IN  IF ~Returned(removed.outcome) THEN removed
                          ELSE Ending(removed, Return(None))

DeleteChannels == {<<"base">>, <<"child1">>, NewLabel(<<"base">>)}

DeleteFaults == 0 .. 5

\* spacewalk-channel-mgmnt delete -c channel [-r]
delete ==
    /\ pc = "constructed"
    /\ op' = "delete"
    /\ \E channel \in DeleteChannels, recursive \in BOOLEAN, faultAt \in DeleteFaults :
          LET run == Leave(DeleteBody(channel, recursive, faultAt), faultAt)
          IN  /\ args' = <<channel, recursive>>
              /\ wire' = run.sent
              /\ server' = run.srv
              /\ result' = run.outcome
    /\ pc' = "done"
    /\ UNCHANGED <<self, other, _key, _api_calllist>>

NextDelete == delete

InitDelete == Constructed(ChannelListing) /\ server \in Servers

SpecDelete == InitDelete /\ [][NextDelete]_vars

(***************************************************************************)
(* Properties.                                                             *)
(***************************************************************************)
Called(name) == op = name

OtherIsBare == other.t = "str"

\* The tri-state result of comparing two labels: the package whose version
\* is a, against the bare version string b.
CompareLabels(a, b) == __cmp__(Dict("foo", Str(a), Str(<< >>)), Str(b))

\* What each operator answers when the package stands to the operand as
\* "older", "newer" or "equal".
ExpectedAnswer(name, standing) ==
    CASE name = "__lt__" -> standing = "older"
      [] name = "__le__" -> standing \in {"older", "equal"}
      [] name = "__gt__" -> standing = "newer"
      [] name = "__ge__" -> standing \in {"newer", "equal"}
      [] name = "__eq__" -> standing = "equal"
      [] name = "__ne__" -> standing \in {"older", "newer"}

FixtureStanding(v) ==
    IF v \in newer_versions THEN "older"
    ELSE IF v \in older_versions THEN "newer" ELSE "equal"

RichOperators == {"__lt__", "__le__", "__gt__", "__ge__", "__eq__", "__ne__"}

\* C1: the package of version '1.7.5rc2' is strictly older than each of the
\* test module's newer versions, strictly newer than each of its older
\* versions and equal to each of its identical versions, under every one of
\* the six operators.
C1_FixtureOperators ==
    (op \in RichOperators /\ self.version.s = pkg_version /\ OtherIsBare)
        => result = Return(ExpectedAnswer(op, FixtureStanding(other.s)))

\* The package answers "equal" to the version written with other separators.
C1_Witness ==
    /\ Called("__eq__")
    /\ self.version.s = pkg_version
    /\ other = Str(<<49, 95, 55, 46, 53, 45, 114, 99, 50>>)
    /\ result = Return(TRUE)

\* C2: against a bare version string or a same-named identity, each of the
\* six operators is a function of the one tri-state result of __cmp__; so
\* exactly one of <, ==, > answers True, <= is the negation of > and >= the
\* negation of <.
C2_OperatorsFollowCmp ==
    (OtherIsBare \/ other.name = self.name) =>
        LET c == __cmp__(self, other)
            lt == __lt__(self, other)
            le == __le__(self, other)
            gt == __gt__(self, other)
            ge == __ge__(self, other)
            eq == __eq__(self, other)
        IN  /\ Returned(c)
            /\ c.value \in {__OLDER__, 0, __NEWER__}
            /\ Called("__eq__") => result = Return(c.value = 0)
            /\ Called("__ne__") => result = Return(c.value # 0)
            /\ Called("__lt__") => result = Return(c.value = __OLDER__)
            /\ Called("__gt__") => result = Return(c.value = __NEWER__)
            /\ Called("__le__") => result = Return(c.value \in {__OLDER__, 0})
            /\ Called("__ge__") => result = Return(c.value \in {__NEWER__, 0})
            /\ Cardinality({r \in {lt, eq, gt} : r = Return(TRUE)}) = 1
            /\ \A r \in {lt, eq, gt} : r \in {Return(TRUE), Return(FALSE)}
            /\ le = Return(~gt.value)
            /\ ge = Return(~lt.value)

\* >= answers True for a package equal to a same-named identity.
C2_Witness ==
    /\ Called("__ge__")
    /\ ~OtherIsBare
    /\ other.name = self.name
    /\ __cmp__(self, other) = Return(0)
    /\ result = Return(TRUE)

\* C3: comparing two identities is field-lexicographic: the result is the
\* result of the two version labels when that is not Equal, and the result
\* of the two release labels otherwise.
C3_FieldLexicographic ==
    (Called("__cmp__") /\ ~OtherIsBare) =>
        LET v == CompareLabels(self.version.s, other.version.s)
            r == CompareLabels(self.release.s, other.release.s)
        IN  /\ Returned(v)
            /\ Returned(r)
            /\ result = (IF v.value # 0 THEN v ELSE r)

\* Equal versions, and the release 'a' against the release '1' decides.
C3_Witness ==
    /\ Called("__cmp__")
    /\ ~OtherIsBare
    /\ self.version = other.version
    /\ self.release = Str(<<97>>)
    /\ other.release = Str(<<49>>)
    /\ result = Return(__OLDER__)

\* C4: antisymmetry: for two same-named identities a and b, a against b is
\* Newer exactly when b against a is Older, and Equal exactly when b against
\* a is Equal.
C4_Antisymmetry ==
    (Called("__cmp__") /\ ~OtherIsBare /\ other.name = self.name) =>
        LET back == __cmp__(other, self)
        IN  /\ Returned(result)
            /\ Returned(back)
            /\ result.value = __NEWER__ <=> back.value = __OLDER__
            /\ result.value = __OLDER__ <=> back.value = __NEWER__
            /\ result.value = 0 <=> back.value = 0

\* Lists of different lengths: the version '' against the version '.'.
C4_Witness ==
    /\ Called("__cmp__")
    /\ ~OtherIsBare
    /\ self.version = Str(<< >>)
    /\ other.version = Str(<<46>>)
    /\ Len(_convert_label_to_list(<< >>)) < Len(_convert_label_to_list(<<46>>))
    /\ result = Return(__OLDER__)
    /\ __cmp__(other, self) = Return(__NEWER__)

\* C5: reflexivity: an identity compared with an identity of the same
\* version and release is Equal.
C5_Reflexivity ==
    (/\ Called("__cmp__")
     /\ ~OtherIsBare
     /\ other.version = self.version
     /\ other.release = self.release) => result = Return(0)

\* The version is a lone separator and the release is empty, on both sides.
C5_Witness ==
    /\ Called("__cmp__")
    /\ ~OtherIsBare
    /\ self.version = Str(<<46>>)
    /\ self.release = Str(<< >>)
    /\ other.version = self.version
    /\ other.release = self.release
    /\ result = Return(0)

\* C6: the label comparison is a total ordering: any two labels a and b are
\* comparable (a result is returned, and a is Older or Equal to b or b is to
\* a), and for every label c, a Older or Equal to b and b Older or Equal to c
\* give a Older or Equal to c, Equal only when both are Equal.
C6_TotalOrder ==
    (Called("__cmp__") /\ OtherIsBare) =>
        LET a == self.version.s
            b == other.s
        IN  /\ Returned(result)
            /\ result.value \in {__OLDER__, 0, __NEWER__}
            /\ result.value <= 0 \/ CompareLabels(b, a).value <= 0
            /\ \A c \in TransLabels :
                   LET bc == CompareLabels(b, c)
                       ac == CompareLabels(a, c)
                   IN  (result.value <= 0 /\ bc.value <= 0) =>
                           /\ ac.value <= 0
                           /\ ac.value = 0 <=> (result.value = 0 /\ bc.value = 0)

\* 'a' is Older than '1', '1' is Older than '10', and 'a' is Older than '10'.
C6_Witness ==
    /\ Called("__cmp__")
    /\ self.version = Str(<<97>>)
    /\ other = Str(<<49>>)
    /\ result = Return(__OLDER__)
    /\ <<49, 48>> \in TransLabels
    /\ CompareLabels(<<49>>, <<49, 48>>) = Return(__OLDER__)
    /\ CompareLabels(<<97>>, <<49, 48>>) = Return(__OLDER__)

\* The maximal runs of digits and the maximal runs of letters of a label,
\* from left to right.
RECURSIVE Runs(_)
Runs(label) ==
    IF label = << >> THEN << >>
    ELSE LET c == Head(label)
             rest == Runs(Tail(label))
         IN  IF RunClass(c) = "other" THEN rest
             ELSE IF Len(label) > 1 /\ RunClass(label[2]) = RunClass(c)
                  THEN <<(<<c>> \o Head(rest))>> \o Tail(rest)
                  ELSE <<(<<c>>)>> \o rest

\* C7: separator insensitivity: two labels with the same sequence of runs
\* compare Equal, whatever separators they hold and wherever these stand.
C7_SeparatorInsensitive ==
    (Called("__cmp__") /\ OtherIsBare /\ Runs(self.version.s) = Runs(other.s))
        => result = Return(0)

\* The label with the leading zeros of its numbers removed (one digit of a
\* number is kept); leading says that no digit of the current number is kept
\* yet.
RECURSIVE WithoutLeadingZeros(_, _, _)
WithoutLeadingZeros(label, i, leading) ==
    IF i > Len(label) THEN << >>
    ELSE IF label[i] \notin Digits
         THEN <<label[i]>> \o WithoutLeadingZeros(label, i + 1, TRUE)
    ELSE IF label[i] = 48 /\ leading /\ i < Len(label) /\ label[i + 1] \in Digits
         THEN WithoutLeadingZeros(label, i + 1, TRUE)
    ELSE <<label[i]>> \o WithoutLeadingZeros(label, i + 1, FALSE)

IsNumericSegment(s) == s # << >> /\ \A k \in 1 .. Len(s) : s[k] \in Digits

IsAlphabeticSegment(s) == s # << >> /\ \A k \in 1 .. Len(s) : s[k] \in Letters

Sign(n) == IF n > 0 THEN 1 ELSE IF n < 0 THEN -1 ELSE 0

\* C8: numbers are compared by value: two labels that differ only by leading
\* zeros of their numbers compare Equal, and of two numbers the one of the
\* larger value is Newer.
C8_NumericByValue ==
    (Called("__cmp__") /\ OtherIsBare) =>
        LET a == self.version.s
            b == other.s
        IN  /\ WithoutLeadingZeros(a, 1, TRUE) = WithoutLeadingZeros(b, 1, TRUE)
                   => result = Return(0)
            /\ (IsNumericSegment(a) /\ IsNumericSegment(b))
                   => /\ result = Return(Sign(int(a) - int(b)))
                      /\ _label_cmp__(a, b) = Sign(int(a) - int(b))

\* '01' against '1': different strings, Equal.
C8_Witness ==
    /\ Called("__cmp__")
    /\ self.version = Str(<<48, 49>>)
    /\ other = Str(<<49>>)
    /\ result = Return(0)

\* C9: a number against a word is Newer and a word against a number is
\* Older, whatever they hold.
C9_NumberOverWord ==
    (Called("__cmp__") /\ OtherIsBare) =>
        LET a == self.version.s
            b == other.s
        IN  /\ (IsNumericSegment(a) /\ IsAlphabeticSegment(b))
                   => /\ result = Return(__NEWER__)
                      /\ _label_cmp__(a, b) = __NEWER__
            /\ (IsAlphabeticSegment(a) /\ IsNumericSegment(b))
                   => /\ result = Return(__OLDER__)
                      /\ _label_cmp__(a, b) = __OLDER__

\* '0' against 'b' is Newer, though '0' < 'b' as strings.
C9_Witness ==
    /\ Called("__cmp__")
    /\ self.version = Str(<<48>>)
    /\ other = Str(<<98>>)
    /\ StrLess(self.version.s, other.s)
    /\ result = Return(__NEWER__)

\* ra is shorter than rb and each of its segments compares Equal to the
\* segment of rb at the same position.
EqualPrefix(ra, rb) ==
    /\ Len(ra) < Len(rb)
    /\ \A k \in 1 .. Len(ra) : _label_cmp__(ra[k], rb[k]) = 0

\* C10: trailing-segment tie-break: when every position the two sequences of
\* runs share compares Equal and one label has more runs, that label is
\* Newer and the other is Older.
C10_TrailingSegmentNewer ==
    (Called("__cmp__") /\ OtherIsBare) =>
        LET ra == Runs(self.version.s)
            rb == Runs(other.s)
        IN  /\ EqualPrefix(ra, rb) => result = Return(__OLDER__)
            /\ EqualPrefix(rb, ra) => result = Return(__NEWER__)

StartsWithSeparator(label) == label # << >> /\ IsSeparator(label[1])

\* C11 as stated: the tokenizer returns exactly the runs of the label and no
\* other element; the empty label gives the empty sequence.
C11_ExactlyTheRuns ==
    (Called("_convert_label_to_list") /\ OtherIsBare)
        => result = Return(Runs(other.s))

\* C11: the tokenizer returns the runs of the label in left-to-right order,
\* followed by one empty string, and preceded by one empty string exactly
\* when the label starts with a separator; it returns no other element.
C11_RunsThenEmpty ==
    (Called("_convert_label_to_list") /\ OtherIsBare) =>
        result = Return((IF StartsWithSeparator(other.s) THEN <<(<< >>)>> ELSE << >>)
                            \o Runs(other.s) \o <<(<< >>)>>)

\* '1.7.5rc2' gives the six elements '1', '7', '5', 'rc', '2', ''.
C11_Witness ==
    /\ Called("_convert_label_to_list")
    /\ other = Str(pkg_version)
    /\ result = Return(<<(<<49>>), <<55>>, <<53>>, <<114, 99>>, <<50>>, << >>>>)

LabelVerdict(a, b) ==
    LET c == CompareLists(_convert_label_to_list(a), _convert_label_to_list(b))
    IN  IF c = Fallthrough THEN Return(0) ELSE c

\* C13: against a bare version string the result is the comparison of the
\* two version labels, the same for every release the package could have,
\* so == is True whenever the version labels compare Equal.
C13_ReleaseIgnored ==
    OtherIsBare =>
        /\ Called("__cmp__") =>
              /\ result = LabelVerdict(self.version.s, other.s)
              /\ \A r \in OpReleases :
                    __cmp__([self EXCEPT !.release = Str(r)], other) = result
        /\ Called("__eq__") =>
              result = Return(LabelVerdict(self.version.s, other.s) = Return(0))

\* A package with a release, == to a bare string with the same version.
C13_Witness ==
    /\ Called("__eq__") /\ OtherIsBare
    /\ self.release.s # << >>
    /\ self.version.s = other.s
    /\ result = Return(TRUE)

\* C14: against an identity of another name, == returns False, != returns
\* True and each of <, <=, >, >= raises NotImplementedError, whatever the
\* versions and releases are.
C14_NameMismatch ==
    (other.t = "dict" /\ other.name # self.name) =>
        /\ Called("__eq__") => result = Return(FALSE)
        /\ Called("__ne__") => result = Return(TRUE)
        /\ (op \in {"__lt__", "__le__", "__gt__", "__ge__"})
              => result = Raise("NotImplementedError")

\* < against an identity of another name with an older-or-newer version.
C14_Witness ==
    /\ Called("__lt__")
    /\ other.t = "dict" /\ other.name # self.name
    /\ other.version = Str(<<49>>) /\ self.version = Str(<<48>>)
    /\ other.release = self.release
    /\ result = Raise("NotImplementedError")

HasNonStringLabel(x) ==
    \/ x.t \notin {"str", "dict"}
    \/ x.t = "dict" /\ (x.version.t # "str" \/ x.release.t # "str")

\* C15 as stated: a call whose other operand is not a string, or is an
\* identity whose version or release is not a string, raises an error and
\* returns nothing.
C15_NonStringFails ==
    (op # "none" /\ HasNonStringLabel(other)) => result.kind = "raise"

OnFixture == Called("__cmp__") /\ self.version.s = pkg_version /\ OtherIsBare

C17_DocstringSense ==
    (Called("__cmp__") /\ (OtherIsBare \/ other.name = self.name)) =>
        /\ result = Return(1) <=> __lt__(self, other) = Return(TRUE)
        /\ result = Return(-1) <=> __gt__(self, other) = Return(TRUE)
        /\ result = Return(0) <=> __eq__(self, other) = Return(TRUE)

Longest(la, lb) == IF Len(la) > Len(lb) THEN Len(la) ELSE Len(lb)

Shortest(la, lb) == IF Len(la) < Len(lb) THEN Len(la) ELSE Len(lb)

\* The shorter list and its verdict, as the field's loop is entered.
ShorterOf(l_self, l_other) ==
    IF Len(l_self) > Len(l_other) THEN Shorter(l_other, __NEWER__)
    ELSE IF Len(l_self) < Len(l_other) THEN Shorter(l_self, __OLDER__)
    ELSE NoShorter

\* The number of iterations the positional loop of one field starts: the
\* first k at which the loop cut to k iterations has left, or the whole
\* range.  Iteration k reads position k - 1 of both lists and, when the read
\* succeeds, performs one segment comparison.
Iterations(a, b) ==
    LET l_self == _convert_label_to_list(a)
        l_other == _convert_label_to_list(b)
        n == Longest(l_self, l_other)
        left == {k \in 1 .. n :
                    PositionLoop(l_self, l_other, ShorterOf(l_self, l_other), 0, k)
                        # Fallthrough}
    IN  IF left = {} THEN n ELSE CHOOSE k \in left : \A j \in left : k <= j

TriState == {Return(__OLDER__), Return(0), Return(__NEWER__)}

\* C18: on string labels (empty, separator-only, with leading or trailing
\* separators) __cmp__ returns one of Older, Equal, Newer and raises nothing,
\* with the labels in the version field and in the release field alike; the
\* positional loop of a field reads no position beyond the end of the
\* shorter list, so it makes at most max(na, nb) segment comparisons.
C18_TerminatesInRange ==
    (Called("__cmp__") /\ OtherIsBare) =>
        LET a == self.version.s
            b == other.s
        IN  /\ result \in TriState
            /\ __cmp__(Dict("foo", Str(<< >>), Str(a)), Dict("foo", Str(<< >>), Str(b)))
                   \in TriState
            /\ Iterations(a, b) <= Shortest(_convert_label_to_list(a),
                                            _convert_label_to_list(b))
            /\ Iterations(a, b) <= Longest(_convert_label_to_list(a),
                                           _convert_label_to_list(b))

\* The empty label against a separator-only label: the loop leaves at the
\* end of the shorter list, by the tie-break.
C18_Witness ==
    /\ Called("__cmp__")
    /\ self.version = Str(<< >>) /\ other = Str(<<46>>)
    /\ Iterations(<< >>, <<46>>) = 1
    /\ result = Return(__OLDER__)

\* The outcome of the named call on the operands as they are.
Outcome(name, pkg, x) ==
    CASE name = "__cmp__" -> __cmp__(pkg, x)
      [] name = "__eq__" -> __eq__(pkg, x)
      [] name = "__ne__" -> __ne__(pkg, x)
      [] name = "__lt__" -> __lt__(pkg, x)
      [] name = "__le__" -> __le__(pkg, x)
      [] name = "__gt__" -> __gt__(pkg, x)
      [] name = "__ge__" -> __ge__(pkg, x)

C20_LogoutOnLeaving ==
    /\ pc \in {"left", "left_raising"} =>
          /\ wire # << >>
          /\ wire[Len(wire)] = Sent(Join(auth, logout), wire[2].key, "__exit__")
    /\ pc \notin {"left", "left_raising"} =>
          \A i \in DOMAIN wire : wire[i].by # "__exit__"

NoDuplicates(list) ==
    \A i, j \in DOMAIN list : list[i] = list[j] => i = j

\* The calls on the wire sent by the named method.
SentBy(by) == SelectSeq(wire, LAMBDA c : c.by = by)

Supplied(x) == IF x.t = "list" THEN x.items ELSE << >>

\* C21 as stated: with channels or keys supplied, a returning lucerne_query
\* has sent one call per supplied channel and one per supplied key, and no
\* package appears more than once in the returned list.
C21_MergedWithoutDuplicates ==
    (Called("lucerne_query") /\ Returned(result)
        /\ (Truthy(args[1]) \/ Truthy(args[2]))) =>
        /\ [i \in DOMAIN SentBy("lucerne_query") |-> SentBy("lucerne_query")[i].args[2]]
               = Supplied(args[1]) \o Supplied(args[2])
        /\ NoDuplicates(result.value)

\* C22: every call that api_call (by the program or by __exit__) has put on
\* the wire carries a name of the call list built at login, and a call of
\* api_call sends exactly its own 'namespace.method' when that name is in
\* the list and otherwise sends nothing and raises SpacewalkAPIError.
C22_OnlyListedCalls ==
    /\ [](\A i \in DOMAIN wire :
             wire[i].by # "__init__" => wire[i].api \in _api_calllist)
    /\ [][api_call =>
             LET api == Join(args'[1], args'[2])
             IN  IF api \in _api_calllist
                 THEN wire' = Append(wire, Sent(api, _key, "api_call"))
                 ELSE wire' = wire /\ result' = Raise("SpacewalkAPIError")]_vars

\* api_call('api', 'get_version') sent under the camel-case-converted form
\* of the listed 'api.getVersion', after a refused call.
C22_Witness ==
    /\ Called("api_call")
    /\ args = <<<<97, 112, 105>>, <<103, 101, 116, 95, 118, 101, 114, 115, 105, 111, 110>>>>
    /\ Returned(result)
    /\ Len(wire) = 3
    /\ wire[3] = Sent(<<97, 112, 105, 46, 103, 101, 116, 95, 118, 101, 114, 115, 105, 111, 110>>, _key, "api_call")
    /\ <<97, 112, 105, 46, 103, 101, 116, 86, 101, 114, 115, 105, 111, 110>> \in _api_calllist
    /\ Join(auth, logout) \notin _api_calllist

\* The clone calls on the wire, in the order they were sent.
Clones == SelectSeq(wire, LAMBDA c : c.api = clone_api)

\* C23: the clone command sends no clone call for a channel that has a
\* parent and exits with an error; otherwise the first clone call is that of
\* the base channel, the following ones are of its children, in the listed
\* order, each with parent_label the label of the base's clone, and every
\* clone call but the last one has succeeded (nothing is cloned after a
\* failed clone of the base or of a child).
C23_CloneCommand ==
    Called("clone") =>
        LET channel == args[1]
            children == Children(server, channel)
        IN  /\ (channel \in DOMAIN server /\ server[channel] # NoLabel) =>
                  Clones = << >> /\ result.kind = "raise"
            /\ Clones # << >> =>
                  Clones[1].args = <<channel, NewChannel(Details(server, channel), NoLabel),
                                     FALSE>>
            /\ \A i \in 2 .. Len(Clones) :
                  /\ i - 1 <= Len(children)
                  /\ Clones[i].args[1] = children[i - 1]
                  /\ Clones[i].args[2].parent_label = NewLabel(channel)
                  /\ Clones[i].args[3] = FALSE
            /\ \A i \in 1 .. Len(Clones) - 1 : Clones[i].args[2].label \in DOMAIN server

\* The base cloned, the clone of the first of two children failed, and no
\* clone call for the second.
C23_Witness ==
    /\ Called("clone")
    /\ Len(Children(server, args[1])) = 2
    /\ Len(Clones) = 2
    /\ Clones[1].args[2].label \in DOMAIN server
    /\ Clones[2].args[2].label \notin DOMAIN server
    /\ result = Raise("SystemExit")

\* The positions, present in both lists, at which the segments differ.
Differing(l_self, l_other) ==
    {i \in 1 .. Len(l_self) :
        i <= Len(l_other) /\ _label_cmp__(l_self[i], l_other[i]) # 0}

\* C24: when the two lists have a position at which their segments compare
\* non-zero, the result is _label_cmp__'s verdict at the lowest such
\* position, whatever the later segments and the lengths are.
C24_ShortCircuit ==
    (Called("__cmp__") /\ OtherIsBare) =>
        LET l_self == _convert_label_to_list(self.version.s)
            l_other == _convert_label_to_list(other.s)
            differing == Differing(l_self, l_other)
        IN  differing # {} =>
                LET lowest == CHOOSE i \in differing : \A j \in differing : i <= j
                IN  result = Return(_label_cmp__(l_self[lowest], l_other[lowest]))

\* '0a' against '1': Older by the first segments, though 'a' against the
\* end of the other list would say Newer and '0a' has more segments.
C24_Witness ==
    /\ Called("__cmp__")
    /\ self.version = Str(<<48, 97>>) /\ other = Str(<<49>>)
    /\ Differing(_convert_label_to_list(<<48, 97>>), _convert_label_to_list(<<49>>)) = {1, 2}
    /\ result = Return(__OLDER__)

AllIn(segment, class) == \A i \in DOMAIN segment : segment[i] \in class

\* C25: every non-empty segment of the tokenizer's list is all digits or all
\* letters, and the non-empty segments are, in order, the maximal digit runs
\* and letter runs of the label, a digit run and a letter run with no
\* separator between them being two segments.
C25_UnmixedSegments ==
    (Called("_convert_label_to_list") /\ OtherIsBare) =>
        /\ Returned(result)
        /\ \A i \in DOMAIN result.value :
              AllIn(result.value[i], Digits) \/ AllIn(result.value[i], Letters)
        /\ SelectSeq(result.value, IsNotEmpty) = Runs(other.s)

\* '1.8a' gives '1', '8', 'a' (and the closing '').
C25_Witness ==
    /\ Called("_convert_label_to_list")
    /\ other = Str(<<49, 46, 56, 97>>)
    /\ result = Return(<<(<<49>>), <<56>>, <<97>>, << >>>>)

\* C26: '' against '' is Equal; '' against any other label is Older and any
\* other label against '' is Newer.
C26_EmptyLabel ==
    (Called("__cmp__") /\ OtherIsBare) =>
        /\ (self.version.s = << >> /\ other.s = << >>) => result = Return(0)
        /\ (self.version.s = << >> /\ other.s # << >>) => result = Return(__OLDER__)
        /\ (self.version.s # << >> /\ other.s = << >>) => result = Return(__NEWER__)

\* '' against the separator-only '..': Older.
C26_Witness ==
    /\ Called("__cmp__")
    /\ self.version = Str(<< >>) /\ other = Str(<<46, 46>>)
    /\ result = Return(__OLDER__)

\* C30: the tokenizer's list is never empty and ends with ''; an earlier
\* element is '' only in the first place, and the first element of a list
\* of two or more is '' exactly when the label starts with a separator.
C30_EmptyStringsAtEnds ==
    (Called("_convert_label_to_list") /\ OtherIsBare) =>
        /\ Returned(result)
        /\ LET list == result.value
           IN  /\ list # << >>
               /\ list[Len(list)] = << >>
               /\ \A i \in 2 .. Len(list) - 1 : list[i] # << >>
               /\ Len(list) >= 2 => (list[1] = << >> <=> StartsWithSeparator(other.s))
               /\ Len(list) = 1 => ~StartsWithSeparator(other.s)

\* '.1.' gives '', '1', ''.
C30_Witness ==
    /\ Called("_convert_label_to_list")
    /\ other = Str(<<46, 49, 46>>)
    /\ result = Return(<<(<< >>), <<49>>, << >>>>)

\* The remote clone calls on the wire.
CloneCalls(sent) == {i \in 1 .. Len(sent) : sent[i].api = clone_api}

\* The existence check of a label answered from the channel's details: the
\* method is in the call list, the server has the channel and gives no Fault.
ReportsFound(label, faultAt) ==
    Returned(channel_exists(Running, label, faultAt).outcome)

\* A step that clones one channel, with a Fault at the faultAt-th call.
ClonesWith(faultAt) ==
    /\ Channel_clone \/ Spacewalk_clone_channel
    /\ LET run == IF op' = "Channel.clone"
                  THEN ChannelClone(Running, args'[1], args'[2], args'[3], faultAt)
                  ELSE clone_channel(Running, args'[1], args'[2], args'[3], faultAt)
       IN  wire' = run.sent /\ server' = run.srv /\ result' = run.outcome

\* C27 (first part): the clone call is sent only when the existence check of
\* the new channel's label has reported the channel as not found.
C27_CloneAfterNotFound ==
    [][\A faultAt \in FaultPositions :
          (ClonesWith(faultAt) /\ CloneCalls(wire') # {})
              => ~ReportsFound(args'[2].label, faultAt)]_vars

\* C27 (third part): a failure of the clone call is reported as
\* SpacewalkError.
C27_CloneFailureIsSpacewalkError ==
    [][(Channel_clone \/ Spacewalk_clone_channel)
          => (result'.kind = "raise" => result' = Raise("SpacewalkError"))]_vars

\* C27: cloning a channel sends the clone call only after the existence
\* check of the new label reported "not found"; when the server already has
\* a channel of that label the method raises SpacewalkError and sends no
\* clone call; a failure of the clone call is a SpacewalkError.
C27_CloneOnlyNewLabel ==
    [][(Channel_clone \/ Spacewalk_clone_channel)
          => /\ \A faultAt \in FaultPositions :
                   (ClonesWith(faultAt) /\ CloneCalls(wire') # {})
                       => ~ReportsFound(args'[2].label, faultAt)
             /\ args'[2].label \in DOMAIN server
                   => /\ result' = Raise("SpacewalkError")
                      /\ CloneCalls(wire') = {}
             /\ result'.kind = "raise" => result' = Raise("SpacewalkError")]_vars

\* The positions of the calls of one remote method on the wire.
CallsOf(sent, api) == {i \in 1 .. Len(sent) : sent[i].api = api}

\* A step of subscribe_base_channel in which the server answered with the
\* two lists and with a Fault at the faultAt-th call.
SubscribesWith(baseAnswer, childAnswer, faultAt) ==
    /\ pc = "constructed"
    /\ op' = "subscribe_base_channel"
    /\ LET run == SubscribeBaseChannel(Running, args'[1], args'[2], args'[3],
                                       baseAnswer, childAnswer, faultAt)
       IN  wire' = run.sent /\ result' = run.outcome

\* C28: subscribe_base_channel sends set_base_channel only for a non-empty
\* channel that the server has and that is in the list of subscribable base
\* channels; otherwise it raises SpacewalkAPIError or
\* SpacewalkChannelNotFound and sends neither set_base_channel nor
\* set_child_channels.  set_child_channels is sent only when recurse is
\* true, after set_base_channel, and with exactly the list that
\* list_subscribable_child_channels has just answered.
C28_SubscribeBaseChannel ==
    [][\A baseAnswer \in BaseAnswers, childAnswer \in ChildAnswers,
          faultAt \in SubscribeFaults :
          SubscribesWith(baseAnswer, childAnswer, faultAt) =>
              LET systemid == args'[1]
                  channel == args'[2]
                  recurse == args'[3]
                  allowed == /\ channel # << >>
                             /\ channel \in DOMAIN server
                             /\ InList(channel, baseAnswer)
                  baseSet == CallsOf(wire', set_base_channel_api)
                  childSet == CallsOf(wire', set_child_channels_api)
              IN  /\ baseSet # {} => allowed
                  /\ \A i \in baseSet : wire'[i].args = <<systemid, channel>>
                  /\ ~allowed =>
                        /\ result' \in {Raise("SpacewalkAPIError"),
                                        Raise("SpacewalkChannelNotFound")}
                        /\ baseSet = {}
                        /\ childSet = {}
                  /\ \A i \in childSet :
                        /\ recurse
                        /\ i - 2 \in baseSet
                        /\ wire'[i - 1].api = list_subscribable_child_channels_api
                        /\ wire'[i].args = <<systemid, childAnswer>>]_vars

\* The channel and its two subscribable children have been set.
C28_Witness ==
    /\ Called("subscribe_base_channel")
    /\ args[3]
    /\ result = Return(None)
    /\ CallsOf(wire, set_base_channel_api) = {Len(wire) - 2}
    /\ wire[Len(wire)].api = set_child_channels_api
    /\ wire[Len(wire)].args = <<args[1], <<<<"child1">>, <<"child2">>>>>>

\* The position on the wire of the remove call of a channel (0: none).
RemoveCallOf(sent, channel) ==
    LET at == {i \in CallsOf(sent, delete_api) : sent[i].args = <<channel>>}
    IN  IF at = {} THEN 0 ELSE CHOOSE i \in at : TRUE

\* C29: the delete command, for a channel that has children on the server:
\* without the recursive flag it ends with an error and sends no remove
\* call; with the flag the remove call of the requested channel is the last
\* remove call, and it is sent only when every child has been removed by an
\* earlier remove call, so not after the removal of a child has failed.
C29_DeleteCommand ==
    [][delete =>
          LET channel == args'[1]
              recursive == args'[2]
              children == {l \in DOMAIN server : server[l] = channel}
              removes == CallsOf(wire', delete_api)
              last == RemoveCallOf(wire', channel)
          IN  /\ (children # {} /\ ~recursive)
                    => result'.kind = "raise" /\ removes = {}
              /\ (children # {} /\ recursive /\ last # 0)
                    => /\ \A i \in removes : i <= last
                       /\ \A child \in children :
                             /\ RemoveCallOf(wire', child) \in 1 .. last - 1
                             /\ child \notin DOMAIN server'
              /\ (recursive /\ \E child \in children : child \in DOMAIN server')
                    => /\ last = 0
                       /\ channel \in DOMAIN server => channel \in DOMAIN server']_vars

\* Both children and then the channel have been removed.
C29_Witness ==
    /\ Called("delete")
    /\ args = <<<<"base">>, TRUE>>
    /\ result = Return(None)
    /\ Cardinality(CallsOf(wire, delete_api)) = 3
    /\ RemoveCallOf(wire, <<"child1">>) # 0
    /\ RemoveCallOf(wire, <<"child2">>) # 0
    /\ RemoveCallOf(wire, <<"base">>) = Len(wire) - 1
    /\ <<"base">> \notin DOMAIN server

\* The removal of the second child has failed and the channel is kept.
C29_WitnessChildFails ==
    /\ Called("delete")
    /\ args = <<<<"base">>, TRUE>>
    /\ result = Raise("SpacewalkError")
    /\ Cardinality(CallsOf(wire, delete_api)) = 2
    /\ RemoveCallOf(wire, <<"base">>) = 0
    /\ <<"base">> \in DOMAIN server

====
